---- MODULE Spec2Model ----
(***************************************************************************)
(* pluggable-json (src/src/index.js): a JSON codec with pluggable          *)
(* serializers.  Strings are sequences of one-character strings, values    *)
(* are records tagged by kind (field k), JavaScript objects are sequences  *)
(* of <<key, value>> pairs in property enumeration order, and a thrown     *)
(* exception is the value Err(name).                                       *)
(***************************************************************************)
EXTENDS Integers, Sequences, FiniteSets, TLC

VARIABLES pc, args, _serializers, _separator, value, outText, outObject,
          backText, backObject, input, decoded

vars == <<pc, args, _serializers, _separator, value, outText, outObject,
          backText, backObject, input, decoded>>

(***************************************************************************)
(* Bounds of the model.                                                    *)
(***************************************************************************)
MaxStrLen == 2
MaxNumber == 1
MaxSerializers == 2

(***************************************************************************)
(* Characters and strings.                                                 *)
(***************************************************************************)
ESCAPE_CHAR == "^"

DefaultSeparator == ":"

REQUIRED_SERIALIZER_PROPERTIES == <<"type", "isSerializable", "serialize", "deserialize">>

Digits == <<"0", "1", "2", "3", "4", "5", "6", "7", "8", "9">>

DigitSet == {Digits[i] : i \in 1..Len(Digits)}

DigitValue(c) == (CHOOSE i \in 1..Len(Digits) : Digits[i] = c) - 1

\* The characters of the model that the regular expression class \w matches.
WordChars == DigitSet \cup {"S", "m", "_"}

Range(f) == {f[i] : i \in DOMAIN f}

RECURSIVE NumberToString(_)
NumberToString(n) ==
    IF n < 10 THEN <<Digits[n + 1]>>
    ELSE NumberToString(n \div 10) \o <<Digits[(n % 10) + 1]>>

RECURSIVE parseInt(_)
parseInt(s) ==
    IF s = <<>> THEN 0
    ELSE 10 * parseInt(SubSeq(s, 1, Len(s) - 1)) + DigitValue(s[Len(s)])

(***************************************************************************)
(* Values.                                                                 *)
(***************************************************************************)
Null == [k |-> "null"]
Bool(b) == [k |-> "bool", b |-> b]
Num(n) == [k |-> "num", n |-> n]
Str(s) == [k |-> "str", s |-> s]
Arr(items) == [k |-> "arr", items |-> items]
Obj(pairs) == [k |-> "map", pairs |-> pairs]
Duration(number, unit) == [k |-> "Duration", number |-> number, unit |-> unit]
Infinity == [k |-> "Infinity"]
Err(name) == [k |-> "error", e |-> name]
None == [k |-> "none"]

IsError(v) == v.k = "error"

\* the first thrown exception among the results of a map() callback, if any
FirstError(results) ==
    LET bad == {i \in 1..Len(results) : IsError(results[i])}
    IN  results[CHOOSE i \in bad : \A j \in bad : i <= j]

AnyError(results) == \E i \in 1..Len(results) : IsError(results[i])

(***************************************************************************)
(* JavaScript objects: own properties in enumeration order (array-index    *)
(* keys ascending first, then the other keys in insertion order).          *)
(***************************************************************************)
Undefined == [k |-> "undefined"]

IsArrayIndex(key) ==
    /\ key # <<>>
    /\ \A i \in 1..Len(key) : key[i] \in DigitSet
    /\ (Len(key) = 1 \/ key[1] # "0")

HasProp(pairs, key) == \E i \in 1..Len(pairs) : pairs[i][1] = key

GetProp(pairs, key) ==
    IF HasProp(pairs, key)
    THEN pairs[CHOOSE i \in 1..Len(pairs) : pairs[i][1] = key][2]
    ELSE Undefined

\* obj[key] = val
SetProp(pairs, key, val) ==
    IF HasProp(pairs, key)
    THEN [i \in 1..Len(pairs) |-> IF pairs[i][1] = key THEN <<key, val>> ELSE pairs[i]]
    ELSE IF IsArrayIndex(key)
    THEN LET before == Cardinality({i \in 1..Len(pairs) :
                            /\ IsArrayIndex(pairs[i][1])
                            /\ parseInt(pairs[i][1]) < parseInt(key)})
         IN  SubSeq(pairs, 1, before) \o <<<<key, val>>>> \o SubSeq(pairs, before + 1, Len(pairs))
    ELSE Append(pairs, <<key, val>>)

\* _.object(list): the object built by assigning the pairs of list in order
RECURSIVE ObjectFromPairs(_)
ObjectFromPairs(list) ==
    IF list = <<>> THEN <<>>
    ELSE LET last == list[Len(list)]
         IN  SetProp(ObjectFromPairs(SubSeq(list, 1, Len(list) - 1)), last[1], last[2])

Keys(pairs) == {pairs[i][1] : i \in 1..Len(pairs)}

\* chai's deep equality: objects compare by their sets of properties
RECURSIVE DeepEqual(_, _)
DeepEqual(a, b) ==
    /\ a.k = b.k
    /\ CASE a.k = "arr" ->
              /\ Len(a.items) = Len(b.items)
              /\ \A i \in 1..Len(a.items) : DeepEqual(a.items[i], b.items[i])
         [] a.k = "map" ->
              /\ Keys(a.pairs) = Keys(b.pairs)
              /\ Len(a.pairs) = Len(b.pairs)
              /\ \A key \in Keys(a.pairs) :
                    DeepEqual(GetProp(a.pairs, key), GetProp(b.pairs, key))
         [] OTHER -> a = b

(***************************************************************************)
(* Serializers (src/test/pluggable-json.spec.js).  A serializer is a       *)
(* record: its type, the names of its own properties, and whose            *)
(* isSerializable / serialize / deserialize functions it carries.          *)
(***************************************************************************)
SerializerType(serializer) ==
    IF "type" \in serializer.keys THEN Str(serializer.type) ELSE Undefined

isSerializable(serializer, v) ==
    CASE serializer.impl = "duration" -> v.k = "Duration"
      [] serializer.impl = "infinity" -> v.k = "Infinity"

serializerSerialize(serializer, v) ==
    CASE serializer.impl = "duration" -> NumberToString(v.number) \o <<v.unit>>
      [] serializer.impl = "infinity" -> <<"I", "n", "f", "i", "n", "i", "t", "y">>

\* value.match(/^(\d+)(\w)$/), parseInt(match[1], 10), match[2]
serializerDeserialize(serializer, v) ==
    CASE serializer.impl = "duration" ->
            IF /\ v.k = "str"
               /\ Len(v.s) >= 2
               /\ \A i \in 1..(Len(v.s) - 1) : v.s[i] \in DigitSet
               /\ v.s[Len(v.s)] \in WordChars
            THEN Duration(parseInt(SubSeq(v.s, 1, Len(v.s) - 1)), v.s[Len(v.s)])
            ELSE Err("TypeError")
      [] serializer.impl = "infinity" -> Infinity

durationSerializer ==
    [type |-> <<"d", "u", "r", "a", "t", "i", "o", "n">>,
     keys |-> Range(REQUIRED_SERIALIZER_PROPERTIES), impl |-> "duration"]

infinitySerializer ==
    [type |-> <<"i", "n", "f", "i", "n", "i", "t", "y">>,
     keys |-> Range(REQUIRED_SERIALIZER_PROPERTIES), impl |-> "infinity"]

(***************************************************************************)
(* The constructor.                                                        *)
(***************************************************************************)
RECURSIVE validateFrom(_, _, _)
validateFrom(serializers, index, serializerTypesSeen) ==
    IF index > Len(serializers) THEN Undefined
    ELSE LET serializer == serializers[index]
         IN  IF SerializerType(serializer) \in serializerTypesSeen
             THEN Err("Error")
             ELSE IF Range(REQUIRED_SERIALIZER_PROPERTIES) \ serializer.keys # {}
             THEN Err("Error")
             ELSE validateFrom(serializers, index + 1,
                               serializerTypesSeen \cup {SerializerType(serializer)})

\* a validation that forgets the types already seen
RECURSIVE validateWithoutTypes(_)
validateWithoutTypes(serializers) ==
    IF serializers = <<>> THEN Undefined
    ELSE IF Range(REQUIRED_SERIALIZER_PROPERTIES) \ Head(serializers).keys # {}
    THEN Err("Error")
    ELSE validateWithoutTypes(Tail(serializers))

_validateSerializers(serializers) == validateFrom(serializers, 1, {})

\* serializers.reduce((result, serializer) => { result[serializer.type] = serializer; ... }, {})
RECURSIVE indexByType(_)
indexByType(serializers) ==
    IF serializers = <<>> THEN <<>>
    ELSE LET serializer == serializers[Len(serializers)]
         IN  SetProp(indexByType(SubSeq(serializers, 1, Len(serializers) - 1)),
                     serializer.type, serializer)

\* _.values(this._serializers).find(serializer => serializer.isSerializable(value))
findSerializerForValue(this, v) ==
    LET hits == {i \in 1..Len(this._serializers) : isSerializable(this._serializers[i][2], v)}
    IN  IF hits = {} THEN Undefined
        ELSE this._serializers[CHOOSE i \in hits : \A j \in hits : i <= j][2]

(***************************************************************************)
(* Escaping and splitting.                                                 *)
(***************************************************************************)
\* value.replace(new RegExp(escapeRegexp(separator), "g"), ESCAPE_CHAR + separator)
RECURSIVE escapeAll(_, _)
escapeAll(str, separator) ==
    IF str = <<>> THEN <<>>
    ELSE (IF Head(str) = separator THEN <<ESCAPE_CHAR, separator>> ELSE <<Head(str)>>)
         \o escapeAll(Tail(str), separator)

\* an escaping that leaves the separators as they are
withoutEscaping(this, str) == str

_escapeSeparators(this, str) == escapeAll(str, this._separator)

\* an unescaping that replaces the first escaped separator only
unescapeFirst(str, separator) ==
    IF \E i \in 1..(Len(str) - 1) : str[i] = ESCAPE_CHAR /\ str[i + 1] = separator
    THEN LET i == CHOOSE i \in 1..(Len(str) - 1) :
                      /\ str[i] = ESCAPE_CHAR /\ str[i + 1] = separator
                      /\ \A j \in 1..(i - 1) : ~(str[j] = ESCAPE_CHAR /\ str[j + 1] = separator)
         IN  SubSeq(str, 1, i - 1) \o SubSeq(str, i + 1, Len(str))
    ELSE str

\* item.replace(new RegExp(ESCAPE_CHAR + separator, "g"), separator)
RECURSIVE unescapeAll(_, _)
unescapeAll(str, separator) ==
    IF str = <<>> THEN <<>>
    ELSE IF Len(str) >= 2 /\ str[1] = ESCAPE_CHAR /\ str[2] = separator
    THEN <<separator>> \o unescapeAll(SubSeq(str, 3, Len(str)), separator)
    ELSE <<Head(str)>> \o unescapeAll(Tail(str), separator)

\* whether this._nonEscapedSeparator, /([^\^])SEP/, matches str at position q
nonEscapedSeparatorAt(str, separator, q) ==
    /\ q + 1 <= Len(str)
    /\ str[q] # ESCAPE_CHAR
    /\ str[q + 1] = separator

\* String.prototype.split with a regular expression that has one capture
\* group: the pieces between the matches, each followed by its capture
RECURSIVE splitFrom(_, _, _, _)
splitFrom(str, separator, p, q) ==
    IF q > Len(str) THEN <<SubSeq(str, p, Len(str))>>
    ELSE IF nonEscapedSeparatorAt(str, separator, q)
    THEN <<SubSeq(str, p, q - 1), <<str[q]>>>> \o splitFrom(str, separator, q + 2, q + 2)
    ELSE splitFrom(str, separator, p, q + 1)

split(str, separator) == splitFrom(str, separator, 1, 1)

_getComponentsFromSerializedString(this, str) ==
    LET array == split(str, this._separator)
        joined == [n \in 1..((Len(array) + 1) \div 2) |->
                     IF 2 * n <= Len(array) THEN array[2 * n - 1] \o array[2 * n]
                     ELSE array[2 * n - 1]]
    IN  [n \in 1..Len(joined) |-> unescapeAll(joined[n], this._separator)]

(***************************************************************************)
(* Encoding.                                                               *)
(***************************************************************************)
\* _.pairs(value): the own properties of an object; a Duration is an object
\* with the properties number and unit
ownPairs(v) ==
    IF v.k = "Duration"
    THEN <<<< <<"n", "u", "m", "b", "e", "r">>, Num(v.number) >>,
           << <<"u", "n", "i", "t">>, Str(<<v.unit>>) >>>>
    ELSE v.pairs

RECURSIVE _serialize(_, _)
RECURSIVE serializeValueInArray(_, _)
RECURSIVE serializeValueInObject(_, _, _)

_serialize(this, v) ==
    LET serializer == findSerializerForValue(this, v)
    IN  IF serializer # Undefined
        THEN Str(serializerSerialize(serializer, v))
        ELSE IF v.k = "arr"
        THEN Arr([i \in 1..Len(v.items) |-> serializeValueInArray(this, v.items[i])])
        ELSE IF v.k \in {"map", "Duration"}
        THEN Obj(ObjectFromPairs(
                 [i \in 1..Len(ownPairs(v)) |->
                     serializeValueInObject(this, ownPairs(v)[i][1], ownPairs(v)[i][2])]))
        ELSE v

serializeValueInArray(this, v) ==
    LET serializer == findSerializerForValue(this, v)
    IN  IF serializer # Undefined
        THEN Str(_escapeSeparators(this, serializer.type) \o <<this._separator>>
                 \o _escapeSeparators(this, serializerSerialize(serializer, v)))
        ELSE IF v.k = "str"
        THEN Str(_escapeSeparators(this, v.s))
        ELSE _serialize(this, v)

serializeValueInObject(this, key, v) ==
    LET serializer == findSerializerForValue(this, v)
    IN  IF serializer # Undefined
        THEN <<_escapeSeparators(this, key) \o <<this._separator>>
                  \o _escapeSeparators(this, serializer.type),
               Str(serializerSerialize(serializer, v))>>
        ELSE <<_escapeSeparators(this, key), _serialize(this, v)>>

(***************************************************************************)
(* Decoding.                                                               *)
(***************************************************************************)
RECURSIVE _deserialize(_, _, _)
RECURSIVE deserializeValueInArray(_, _)
RECURSIVE deserializeValueInObject(_, _, _)

\* type is Undefined when the caller passes no second argument; an empty
\* string is falsy
_deserialize(this, v, type) ==
    IF type.k = "str" /\ type.s # <<>>
    THEN IF HasProp(this._serializers, type.s)
         THEN serializerDeserialize(GetProp(this._serializers, type.s), v)
         ELSE Err("TypeError")
    ELSE IF v.k = "arr"
    THEN LET items == [i \in 1..Len(v.items) |-> deserializeValueInArray(this, v.items[i])]
         IN  IF AnyError(items) THEN FirstError(items) ELSE Arr(items)
    ELSE IF v.k = "map"
    THEN LET list == [i \in 1..Len(v.pairs) |->
                         deserializeValueInObject(this, v.pairs[i][1], v.pairs[i][2])]
             results == [i \in 1..Len(list) |-> list[i][2]]
         IN  IF AnyError(results) THEN FirstError(results) ELSE Obj(ObjectFromPairs(list))
    ELSE v

deserializeValueInArray(this, v) ==
    IF v.k = "str"
    THEN LET components == _getComponentsFromSerializedString(this, v.s)
         IN  IF Len(components) = 1
             THEN _deserialize(this, Str(components[1]), Undefined)
             ELSE _deserialize(this, Str(components[2]), Str(components[1]))
    ELSE _deserialize(this, v, Undefined)

deserializeValueInObject(this, key, v) ==
    LET components == _getComponentsFromSerializedString(this, key)
    IN  IF Len(components) = 1
        THEN <<components[1], _deserialize(this, v, Undefined)>>
        ELSE <<components[1], _deserialize(this, v, Str(components[2]))>>

(***************************************************************************)
(* The text codec, JSON.stringify and JSON.parse, on the values of the     *)
(* model: null, booleans, non-negative integers, strings, arrays, objects. *)
(***************************************************************************)
RECURSIVE quoteChars(_)
quoteChars(str) ==
    IF str = <<>> THEN <<>>
    ELSE (IF Head(str) \in {"\"", "\\"} THEN <<"\\", Head(str)>> ELSE <<Head(str)>>)
         \o quoteChars(Tail(str))

quote(str) == <<"\"">> \o quoteChars(str) \o <<"\"">>

RECURSIVE joinWithCommas(_)
joinWithCommas(strs) ==
    IF strs = <<>> THEN <<>>
    ELSE IF Len(strs) = 1 THEN strs[1]
    ELSE strs[1] \o <<",">> \o joinWithCommas(Tail(strs))

RECURSIVE JSONstringify(_)
JSONstringify(v) ==
    CASE v.k = "null" -> <<"n", "u", "l", "l">>
      [] v.k = "Infinity" -> <<"n", "u", "l", "l">>
      [] v.k = "bool" -> IF v.b THEN <<"t", "r", "u", "e">> ELSE <<"f", "a", "l", "s", "e">>
      [] v.k = "num" -> NumberToString(v.n)
      [] v.k = "str" -> quote(v.s)
      [] v.k = "arr" ->
            <<"[">> \o joinWithCommas([i \in 1..Len(v.items) |-> JSONstringify(v.items[i])])
            \o <<"]">>
      [] v.k = "map" ->
            <<"{">> \o joinWithCommas([i \in 1..Len(v.pairs) |->
                          quote(v.pairs[i][1]) \o <<":">> \o JSONstringify(v.pairs[i][2])])
            \o <<"}">>

ParseFail == [ok |-> FALSE]

Parsed(v, next) == [ok |-> TRUE, v |-> v, next |-> next]

parseLiteral(text, i, word, v) ==
    IF i + Len(word) - 1 <= Len(text) /\ SubSeq(text, i, i + Len(word) - 1) = word
    THEN Parsed(v, i + Len(word))
    ELSE ParseFail

RECURSIVE parseDigits(_, _)
parseDigits(text, i) ==
    IF i <= Len(text) /\ text[i] \in DigitSet THEN parseDigits(text, i + 1) ELSE i

parseNumber(text, i) ==
    LET next == IF text[i] = "0" THEN i + 1 ELSE parseDigits(text, i)
    IN  Parsed(Num(parseInt(SubSeq(text, i, next - 1))), next)

\* the characters of a string literal, from position j to its closing quote
RECURSIVE parseChars(_, _, _)
parseChars(text, j, acc) ==
    IF j > Len(text) THEN ParseFail
    ELSE IF text[j] = "\"" THEN Parsed(acc, j + 1)
    ELSE IF text[j] = "\\"
    THEN IF j + 1 <= Len(text) /\ text[j + 1] \in {"\"", "\\"}
         THEN parseChars(text, j + 2, Append(acc, text[j + 1]))
         ELSE ParseFail
    ELSE parseChars(text, j + 1, Append(acc, text[j]))

RECURSIVE parseValue(_, _)
RECURSIVE parseElements(_, _, _)
RECURSIVE parseMembers(_, _, _)

parseValue(text, i) ==
    IF i > Len(text) THEN ParseFail
    ELSE CASE text[i] = "n" -> parseLiteral(text, i, <<"n", "u", "l", "l">>, Null)
           [] text[i] = "t" -> parseLiteral(text, i, <<"t", "r", "u", "e">>, Bool(TRUE))
           [] text[i] = "f" -> parseLiteral(text, i, <<"f", "a", "l", "s", "e">>, Bool(FALSE))
           [] text[i] \in DigitSet -> parseNumber(text, i)
           [] text[i] = "\"" ->
                LET str == parseChars(text, i + 1, <<>>)
                IN  IF str.ok THEN Parsed(Str(str.v), str.next) ELSE ParseFail
           [] text[i] = "[" ->
                IF i + 1 <= Len(text) /\ text[i + 1] = "]"
                THEN Parsed(Arr(<<>>), i + 2)
                ELSE parseElements(text, i + 1, <<>>)
           [] text[i] = "{" ->
                IF i + 1 <= Len(text) /\ text[i + 1] = "}"
                THEN Parsed(Obj(<<>>), i + 2)
                ELSE parseMembers(text, i + 1, <<>>)
           [] OTHER -> ParseFail

parseElements(text, i, acc) ==
    LET item == parseValue(text, i)
    IN  IF ~item.ok \/ item.next > Len(text) THEN ParseFail
        ELSE IF text[item.next] = ","
        THEN parseElements(text, item.next + 1, Append(acc, item.v))
        ELSE IF text[item.next] = "]"
        THEN Parsed(Arr(Append(acc, item.v)), item.next + 1)
        ELSE ParseFail

parseMembers(text, i, acc) ==
    IF i > Len(text) \/ text[i] # "\"" THEN ParseFail
    ELSE LET key == parseChars(text, i + 1, <<>>)
         IN  IF ~key.ok \/ key.next > Len(text) \/ text[key.next] # ":" THEN ParseFail
             ELSE LET member == parseValue(text, key.next + 1)
                  IN  IF ~member.ok \/ member.next > Len(text) THEN ParseFail
                      ELSE IF text[member.next] = ","
                      THEN parseMembers(text, member.next + 1,
                                        SetProp(acc, key.v, member.v))
                      ELSE IF text[member.next] = "}"
                      THEN Parsed(Obj(SetProp(acc, key.v, member.v)), member.next + 1)
                      ELSE ParseFail

JSONparse(text) ==
    LET whole == parseValue(text, 1)
    IN  IF whole.ok /\ whole.next = Len(text) + 1 THEN whole.v ELSE Err("SyntaxError")

\* JSON.parse converts its argument to a string first
StringOf(v) ==
    CASE v.k = "str" -> v.s
      [] v.k = "num" -> NumberToString(v.n)
      [] v.k = "bool" -> IF v.b THEN <<"t", "r", "u", "e">> ELSE <<"f", "a", "l", "s", "e">>
      [] v.k = "null" -> <<"n", "u", "l", "l">>
      [] v.k = "Infinity" -> <<"I", "n", "f", "i", "n", "i", "t", "y">>

(***************************************************************************)
(* The public operations.                                                  *)
(***************************************************************************)
serialize(this, v, toObject) ==
    LET serializedObject == _serialize(this, v)
    IN  IF toObject THEN serializedObject ELSE Str(JSONstringify(serializedObject))

\* a deserialize that never parses its argument
deserializeWithoutParse(this, v) == _deserialize(this, v, Undefined)

\* _.isObject(value) ? value : JSON.parse(value)
deserialize(this, v) ==
    IF v.k \in {"arr", "map"}
    THEN _deserialize(this, v, Undefined)
    ELSE LET parsed == JSONparse(StringOf(v))
         IN  IF IsError(parsed) THEN parsed ELSE _deserialize(this, parsed, Undefined)

(***************************************************************************)
(* The inputs of the model.                                                *)
(***************************************************************************)
Chars == {DefaultSeparator, "S", ESCAPE_CHAR}

Separators == {DefaultSeparator, "S"}

RECURSIVE StringsOfLen(_)
StringsOfLen(n) ==
    IF n = 0 THEN {<<>>}
    ELSE {Append(str, c) : str \in StringsOfLen(n - 1), c \in Chars}

Strings == UNION {StringsOfLen(n) : n \in 0..MaxStrLen}

ShortStrings == UNION {StringsOfLen(n) : n \in 0..(MaxStrLen - 1)}

Durations == {Duration(n, unit) : n \in 1..MaxNumber, unit \in {"m", "S"}}

Scalars ==
    {Null, Bool(TRUE), Infinity} \cup {Num(n) : n \in 0..MaxNumber}
    \cup {Str(str) : str \in Strings} \cup Durations

\* the values put inside nested containers
Members == {Null, Infinity, Str(<<DefaultSeparator, "S">>)} \cup Durations

Entries == {Num(MaxNumber), Duration(MaxNumber, "m")}

Values ==
    Scalars
    \cup {Arr(<<x>>) : x \in Scalars}
    \cup {Arr(<<x, y>>) : x \in Members, y \in Members}
    \cup {Obj(<<<<key, x>>>>) : key \in Strings, x \in Members}
    \cup {Arr(<<Arr(<<x>>)>>) : x \in Members}
    \cup {Arr(<<Obj(<<<<key, x>>>>)>>) : key \in ShortStrings, x \in Members}
    \cup {Obj(<<<<key, Arr(<<x>>)>>>>) : key \in ShortStrings, x \in Members}
    \cup {Obj(<<<<key, Obj(<<<<key, x>>>>)>>>>) : key \in ShortStrings, x \in Members}
    \cup {Obj(ObjectFromPairs(<<<<k1, x>>, <<k2, y>>>>)) :
             k1 \in ShortStrings, k2 \in ShortStrings, x \in Entries, y \in Entries}

\* a value of JSON's own kinds only
RECURSIVE IsNative(_)
IsNative(v) ==
    CASE v.k = "arr" -> \A i \in 1..Len(v.items) : IsNative(v.items[i])
      [] v.k = "map" -> \A i \in 1..Len(v.pairs) : IsNative(v.pairs[i][2])
      [] OTHER -> v.k \in {"null", "bool", "num", "str"}

Inputs == {v \in Values : IsNative(v)}

\* two serializers of Durations whose types are array indices
serializerTwo == [durationSerializer EXCEPT !.type = <<"2">>]

serializerOne == [durationSerializer EXCEPT !.type = <<"1">>]

\* the serializer lists of the test suite, and the two array-index types in
\* both orders
Registries ==
    {<<>>, <<durationSerializer>>, <<durationSerializer, infinitySerializer>>,
     <<serializerTwo, serializerOne>>, <<serializerOne, serializerTwo>>}

\* serializers for the constructor alone: the above, durationSerializer
\* without each one of its properties, and another serializer of its type
incompleteSerializers ==
    {[durationSerializer EXCEPT !.keys = @ \ {name}] :
        name \in Range(REQUIRED_SERIALIZER_PROPERTIES)}

SerializerPool ==
    {durationSerializer, infinitySerializer, serializerTwo, serializerOne,
     [infinitySerializer EXCEPT !.type = durationSerializer.type]}
    \cup incompleteSerializers

RECURSIVE ListsOfLen(_, _)
ListsOfLen(S, n) ==
    IF n = 0 THEN {<<>>}
    ELSE {Append(list, x) : list \in ListsOfLen(S, n - 1), x \in S}

SerializerLists == UNION {ListsOfLen(SerializerPool, n) : n \in 0..MaxSerializers}

(***************************************************************************)
(* The state machine: one instance, constructed once and then used.        *)
(***************************************************************************)
This == [_serializers |-> _serializers, _separator |-> _separator]

Init ==
    /\ pc = "new"
    /\ args = <<>>
    /\ _serializers = <<>>
    /\ _separator = DefaultSeparator
    /\ value = None
    /\ outText = None
    /\ outObject = None
    /\ backText = None
    /\ backObject = None
    /\ input = None
    /\ decoded = None

\* the separator argument left out of the constructor call
NoSeparator == "undefined"

\* constructor(serializers = [], separator = ":")
separatorOrDefault(separator) ==
    IF separator = NoSeparator THEN DefaultSeparator ELSE separator

\* new PluggableJSON(serializers, separator)
Construct(serializers, separator) ==
    /\ pc = "new"
    /\ args' = <<serializers, separator>>
    /\ IF IsError(_validateSerializers(serializers))
       THEN /\ pc' = "threw"
            /\ UNCHANGED <<_serializers, _separator>>
       ELSE /\ pc' = "ready"
            /\ _serializers' = indexByType(serializers)
            /\ _separator' = separatorOrDefault(separator)
    /\ UNCHANGED <<value, outText, outObject, backText, backObject, input, decoded>>

\* serialize(v) and serialize(v, {toObject: true}); a run of the model follows
\* one value through the instance
Serialize(v, toObject) ==
    /\ pc = "ready"
    /\ (value = None /\ input = None) \/ v = value
    /\ value' = v
    /\ IF toObject
       THEN /\ outObject' = serialize(This, v, TRUE)
            /\ outText' = IF v = value THEN outText ELSE None
       ELSE /\ outText' = serialize(This, v, FALSE)
            /\ outObject' = IF v = value THEN outObject ELSE None
    /\ backText' = IF v = value THEN backText ELSE None
    /\ backObject' = IF v = value THEN backObject ELSE None
    /\ input' = None
    /\ decoded' = None
    /\ UNCHANGED <<pc, args, _serializers, _separator>>

\* deserialize(text) on the text serialize returned
DeserializeText ==
    /\ pc = "ready"
    /\ outText # None
    /\ backText' = deserialize(This, outText)
    /\ UNCHANGED <<pc, args, _serializers, _separator, value, outText, outObject,
                   backObject, input, decoded>>

\* deserialize(tree) on the tree serialize returned with toObject
DeserializeObject ==
    /\ pc = "ready"
    /\ outObject # None
    /\ backObject' = deserialize(This, outObject)
    /\ UNCHANGED <<pc, args, _serializers, _separator, value, outText, outObject,
                   backText, input, decoded>>

\* deserialize(x) on a tree or text from elsewhere
DeserializeInput(x) ==
    /\ pc = "ready"
    /\ value = None /\ input = None
    /\ input' = x
    /\ decoded' = deserialize(This, x)
    /\ value' = None
    /\ outText' = None
    /\ outObject' = None
    /\ backText' = None
    /\ backObject' = None
    /\ UNCHANGED <<pc, args, _serializers, _separator>>

Next ==
    \/ \E serializers \in Registries, separator \in Separators :
          Construct(serializers, separator)
    \/ \E v \in Values, toObject \in BOOLEAN : Serialize(v, toObject)
    \/ DeserializeText
    \/ DeserializeObject
    \/ \E x \in Inputs : DeserializeInput(x)

Spec == Init /\ [][Next]_vars

\* the constructor alone, on every list of serializers of the pool
NextConstruct ==
    \E serializers \in SerializerLists, separator \in Separators :
        Construct(serializers, separator)

SpecConstruct == Init /\ [][NextConstruct]_vars

(***************************************************************************)
(* Vocabulary of the claims.                                               *)
(***************************************************************************)
IsOpaque(v) == v.k \in {"Duration", "Infinity"}

\* some serializer passed to the constructor recognises v
IsRecognised(v) ==
    \E i \in 1..Len(args[1]) : isSerializable(args[1][i], v)

\* every Duration and Infinity inside v is recognised by a registered serializer
RECURSIVE AllRecognised(_)
AllRecognised(v) ==
    CASE v.k = "arr" -> \A i \in 1..Len(v.items) : AllRecognised(v.items[i])
      [] v.k = "map" -> \A i \in 1..Len(v.pairs) : AllRecognised(v.pairs[i][2])
      [] OTHER -> IsOpaque(v) => IsRecognised(v)

IsSpecial(str) == \E i \in 1..Len(str) : str[i] \in {_separator, ESCAPE_CHAR}

\* some key, string or serializer payload inside v holds the separator or
\* the escape character
RECURSIVE HasSpecial(_)
HasSpecial(v) ==
    CASE v.k = "arr" -> \E i \in 1..Len(v.items) : HasSpecial(v.items[i])
      [] v.k = "map" ->
            \E i \in 1..Len(v.pairs) : IsSpecial(v.pairs[i][1]) \/ HasSpecial(v.pairs[i][2])
      [] v.k = "str" -> IsSpecial(v.s)
      [] v.k = "Duration" -> IsSpecial(<<v.unit>>)
      [] OTHER -> FALSE

RECURSIVE NoEmptyKey(_)
NoEmptyKey(v) ==
    CASE v.k = "arr" -> \A i \in 1..Len(v.items) : NoEmptyKey(v.items[i])
      [] v.k = "map" ->
            \A i \in 1..Len(v.pairs) : v.pairs[i][1] # <<>> /\ NoEmptyKey(v.pairs[i][2])
      [] OTHER -> TRUE

\* SEP + escape(type) + SEP + escape(payload), for a serializer D of the
\* constructor's list
TaggedBy(D, v) ==
    Str(<<_separator>> \o escapeAll(D.type, _separator) \o <<_separator>>
        \o escapeAll(serializerSerialize(D, v), _separator))

IsTagged(out, v) ==
    \E i \in 1..Len(args[1]) :
        isSerializable(args[1][i], v) /\ out = TaggedBy(args[1][i], v)

\* the earliest serializer of the constructor's list that recognises v
FirstRegistered(v) ==
    args[1][CHOOSE i \in 1..Len(args[1]) :
                /\ isSerializable(args[1][i], v)
                /\ \A j \in 1..(i - 1) : ~isSerializable(args[1][j], v)]

RegisteredTypes == {args[1][i].type : i \in 1..Len(args[1])}

\* deserialize reads a type tag off some string or key of tree x, and no
\* serializer has that type
RECURSIVE HasUnknownTag(_)
HasUnknownTag(x) ==
    CASE x.k = "arr" ->
            \E i \in 1..Len(x.items) :
                IF x.items[i].k = "str"
                THEN LET components == _getComponentsFromSerializedString(This, x.items[i].s)
                     IN  Len(components) > 1 /\ components[1] \notin RegisteredTypes
                ELSE HasUnknownTag(x.items[i])
      [] x.k = "map" ->
            \E i \in 1..Len(x.pairs) :
                LET components == _getComponentsFromSerializedString(This, x.pairs[i][1])
                IN  IF Len(components) > 1
                    THEN components[2] \notin RegisteredTypes
                    ELSE HasUnknownTag(x.pairs[i][2])
      [] OTHER -> FALSE

(***************************************************************************)
(* The claims.                                                             *)
(***************************************************************************)

\* C1: round trip.  For every value tree whose Durations and Infinities are
\* all recognised by a registered serializer, at any position including the
\* top level, deserialize(serialize(v)) is deep-equal to v.
C1_RoundTrip ==
    (backText # None /\ AllRecognised(value)) => DeepEqual(backText, value)

\* C2: separator collision.  For every array or map (with non-empty keys)
\* in which a key, a string or a serializer payload holds the separator or
\* the escape character, deserialize(serialize(v)) is deep-equal to v.
C2_SeparatorCollision ==
    (/\ backText # None
     /\ value.k \in {"arr", "map"}
     /\ AllRecognised(value)
     /\ NoEmptyKey(value)
     /\ HasSpecial(value))
    => DeepEqual(backText, value)

\* C3: with no serializers and the default separator, every tree of native
\* values round-trips: deserialize(serialize(v)) is deep-equal to v.
C3_NativeRoundTrip ==
    (/\ args = <<<<>>, DefaultSeparator>>
     /\ backText # None
     /\ IsNative(value))
    => DeepEqual(backText, value)

\* C3 witness: a map whose key holds the escape character and the separator
\* and whose value is a string holding the separator has made the round trip.
C3_Witness ==
    /\ args = <<<<>>, DefaultSeparator>>
    /\ backText # None
    /\ value = Obj(<< << <<ESCAPE_CHAR, DefaultSeparator>>, Str(<<DefaultSeparator, "S">>) >> >>)

\* C4: wire shape.  A value recognised by a serializer D, at the top level,
\* as an array item or as a map value, is replaced in the serialized tree by
\* the one string SEP + escape(D.type) + SEP + escape(D.serialize(value)).
C4_WireShape ==
    outObject # None =>
        /\ IsRecognised(value) => IsTagged(outObject, value)
        /\ value.k = "arr" =>
              /\ outObject.k = "arr"
              /\ Len(outObject.items) = Len(value.items)
              /\ \A i \in 1..Len(value.items) :
                    IsRecognised(value.items[i]) => IsTagged(outObject.items[i], value.items[i])
        /\ value.k = "map" =>
              /\ outObject.k = "map"
              /\ \A i \in 1..Len(value.pairs) :
                    IsRecognised(value.pairs[i][2]) =>
                        IsTagged(GetProp(outObject.pairs, value.pairs[i][1]), value.pairs[i][2])

\* C5: keys are untouched by encoding.  serialize with toObject turns a map
\* into a map with exactly the same set of keys.
C5_KeysUntouched ==
    (outObject # None /\ value.k = "map") =>
        /\ outObject.k = "map"
        /\ Keys(outObject.pairs) = Keys(value.pairs)

\* C6: tagged-string discriminator.  A string of the serialized tree (the
\* top-level value, an array item, the value of a one-entry map) begins with
\* the separator if and only if it encodes a recognised value.
C6_Discriminator ==
    LET BeginsWithSeparator(out) == out.s # <<>> /\ out.s[1] = _separator
        Holds(out, v) == out.k = "str" => (BeginsWithSeparator(out) <=> IsRecognised(v))
    IN  outObject # None =>
            /\ Holds(outObject, value)
            /\ (value.k = "arr" /\ outObject.k = "arr") =>
                  \A i \in 1..Len(value.items) : Holds(outObject.items[i], value.items[i])
            /\ (value.k = "map" /\ outObject.k = "map" /\ Len(value.pairs) = 1) =>
                  Holds(outObject.pairs[1][2], value.pairs[1][2])

\* C7: first match wins in registration order.  An array item that several
\* serializers recognise is encoded with the type of the serializer that
\* comes first in the list passed to the constructor.
C7_FirstMatch ==
    (outObject # None /\ value.k = "arr") =>
        \A i \in 1..Len(value.items) :
            IsRecognised(value.items[i]) =>
                LET D == FirstRegistered(value.items[i])
                IN  outObject.items[i] =
                        Str(escapeAll(D.type, _separator) \o <<_separator>>
                            \o escapeAll(serializerSerialize(D, value.items[i]), _separator))

\* C8: the constructor throws, and leaves no instance, for every list in
\* which a serializer lacks one of the four required properties or two
\* serializers share a type; every other list constructs, each serializer
\* registered under its type.
C8_ConstructionRejects ==
    LET serializers == args[1]
        IsComplete(serializer) ==
            \A i \in 1..Len(REQUIRED_SERIALIZER_PROPERTIES) :
                REQUIRED_SERIALIZER_PROPERTIES[i] \in serializer.keys
        SharesType ==
            \E i, j \in 1..Len(serializers) :
                /\ i # j
                /\ "type" \in serializers[i].keys
                /\ "type" \in serializers[j].keys
                /\ serializers[i].type = serializers[j].type
        IsInvalid == SharesType \/ \E i \in 1..Len(serializers) : ~IsComplete(serializers[i])
    IN  pc # "new" =>
            IF IsInvalid
            THEN pc = "threw" /\ _serializers = <<>>
            ELSE /\ pc = "ready"
                 /\ Len(_serializers) = Len(serializers)
                 /\ \A i \in 1..Len(serializers) :
                       GetProp(_serializers, serializers[i].type) = serializers[i]

\* C8 witness: the constructor has thrown on two complete serializers that
\* share a type and differ in their functions.
C8_Witness ==
    /\ pc = "threw"
    /\ Len(args[1]) = 2
    /\ args[1][1] = durationSerializer
    /\ args[1][2] = [infinitySerializer EXCEPT !.type = durationSerializer.type]

\* C9: unknown type fails, never falls back.  Whenever deserialize reads a
\* type tag (any string, the empty one included) that no serializer has,
\* the call fails with an error.
C9_UnknownTypeFails ==
    LET tree == IF input.k \in {"arr", "map"} THEN input ELSE JSONparse(StringOf(input))
    IN  (decoded # None /\ HasUnknownTag(tree)) => IsError(decoded)

\* C10 as claimed: for every value, a top-level string, number, boolean or
\* null included, deserialize gives the same result on the serialized tree
\* as on the serialized text, and the text is JSON.stringify of the tree.
C10_Interchangeable ==
    AllRecognised(value) =>
        /\ (outText # None /\ outObject # None) => outText = Str(JSONstringify(outObject))
        /\ (backText # None /\ backObject # None) => backText = backObject

\* C10 as amended: the same, for every value that is not a string and not
\* recognised by a serializer at the top level (so that the serialized tree
\* is not itself a string); the text is JSON.stringify of the tree for
\* every value.
C10_InterchangeableTrees ==
    AllRecognised(value) =>
        /\ (outText # None /\ outObject # None) => outText = Str(JSONstringify(outObject))
        /\ (backText # None /\ backObject # None /\ value.k # "str" /\ ~IsRecognised(value))
              => backText = backObject

\* C10 witness: a map holding a recognised Duration has been serialized both
\* ways and deserialized from both, without error.
C10_Witness ==
    /\ value.k = "map"
    /\ \E i \in 1..Len(value.pairs) :
          value.pairs[i][2].k = "Duration" /\ IsRecognised(value.pairs[i][2])
    /\ backText # None /\ ~IsError(backText)
    /\ backObject # None /\ ~IsError(backObject)

(***************************************************************************)
(* Maps under every separator: one- and two-entry maps, a serializer with  *)
(* a one-character type, the separator left out or any character.          *)
(***************************************************************************)
serializerS == [durationSerializer EXCEPT !.type = <<"S">>]

MapRegistries == {<<durationSerializer>>, <<serializerS>>}

\* the default, the custom separator of the tests, the escape character, a
\* character of the type "duration", and no separator argument
AnySeparators == Chars \cup {"d", NoSeparator}

LongStrings == UNION {StringsOfLen(n) : n \in 0..(MaxStrLen + 1)}

MapValues ==
    {Obj(<<<<key, x>>>>) : key \in LongStrings, x \in Durations}
    \cup {Obj(ObjectFromPairs(<<<<k1, x>>, <<k2, y>>>>)) :
             k1 \in Strings, k2 \in Strings, x \in Entries, y \in Entries}

NextMaps ==
    \/ \E serializers \in MapRegistries, separator \in AnySeparators :
          Construct(serializers, separator)
    \/ \E v \in MapValues, toObject \in BOOLEAN : Serialize(v, toObject)
    \/ DeserializeText
    \/ DeserializeObject

SpecMaps == Init /\ [][NextMaps]_vars

\* C11: any separator works.  Under every separator a one-entry map whose
\* value is recognised (its key non-empty and not ending in the escape
\* character) round-trips through deserialize(serialize(v)), and the
\* serialized text holds the separator character.
C11_AnySeparator ==
    (/\ value.k = "map"
     /\ Len(value.pairs) = 1
     /\ IsRecognised(value.pairs[1][2])
     /\ value.pairs[1][1] # <<>>
     /\ value.pairs[1][1][Len(value.pairs[1][1])] # ESCAPE_CHAR)
    => /\ outText # None => \E i \in 1..Len(outText.s) : outText.s[i] = _separator
       /\ backText # None => DeepEqual(backText, value)

\* C12: default separator and key tagging.  With no separator argument
\* the separator is ':', and every map entry whose value a serializer D
\* recognises appears in serialize(v, {toObject: true}) under the key
\* escape(key) + SEP + escape(D.type), with D.serialize(value) as its value.
C12_KeyTagging ==
    (pc = "ready" /\ args[2] = NoSeparator => _separator = ":")
    /\ ((outObject # None /\ value.k = "map") =>
            \A i \in 1..Len(value.pairs) :
                IsRecognised(value.pairs[i][2]) =>
                    \E n \in 1..Len(args[1]) :
                        LET D == args[1][n]
                            key == escapeAll(value.pairs[i][1], _separator) \o <<_separator>>
                                       \o escapeAll(D.type, _separator)
                        IN  /\ isSerializable(D, value.pairs[i][2])
                            /\ outObject.k = "map"
                            /\ HasProp(outObject.pairs, key)
                            /\ GetProp(outObject.pairs, key) =
                                   Str(serializerSerialize(D, value.pairs[i][2])))

\* C14: no entry is lost on encode.  serialize turns a map into a map with
\* the same number of entries: distinct keys never meet in one encoded key.
C14_NoEntryLost ==
    (outObject # None /\ value.k = "map") =>
        /\ outObject.k = "map"
        /\ Len(outObject.pairs) = Len(value.pairs)

(***************************************************************************)
(* The escaper on its own: a string is escaped as a key or an array item   *)
(* is, and the escaped string is unescaped as a component is.              *)
(***************************************************************************)
\* this._escapeSeparators(s)
EscapeString(s) ==
    /\ pc = "ready"
    /\ input = None
    /\ input' = Str(s)
    /\ outText' = Str(_escapeSeparators(This, s))
    /\ UNCHANGED <<pc, args, _serializers, _separator, value, outObject, backText,
                   backObject, decoded>>

\* the replace that _getComponentsFromSerializedString maps over a component
UnescapeString ==
    /\ pc = "ready"
    /\ input # None
    /\ decoded = None
    /\ decoded' = Str(unescapeAll(outText.s, _separator))
    /\ UNCHANGED <<pc, args, _serializers, _separator, value, outText, outObject,
                   backText, backObject, input>>

NextEscaper ==
    \/ \E separator \in AnySeparators : Construct(<<>>, separator)
    \/ \E s \in LongStrings : EscapeString(s)
    \/ UnescapeString

SpecEscaper == Init /\ [][NextEscaper]_vars

\* the number of separators among the first n characters of str
SeparatorsBefore(str, n) == Cardinality({i \in 1..n : str[i] = _separator})

\* C13: the escaper law.  escape(s) is s with ESC put before each SEP and
\* nothing else changed, and replacing every ESC SEP of escape(s) by SEP gives
\* s again, for every s: with ESC, with SEP, with ESC SEP inside.
C13_EscaperLaw ==
    (pc = "ready" /\ input # None) =>
        LET s == input.s
            escaped == outText.s
        IN  /\ Len(escaped) = Len(s) + SeparatorsBefore(s, Len(s))
            /\ \A i \in 1..Len(s) :
                   /\ escaped[i + SeparatorsBefore(s, i)] = s[i]
                   /\ s[i] = _separator =>
                          escaped[i + SeparatorsBefore(s, i) - 1] = ESCAPE_CHAR
            /\ decoded # None => decoded.s = s

\* the law is exercised on a string that holds ESC SEP and a second SEP
C13_Witness ==
    /\ pc = "ready"
    /\ input = Str(<<ESCAPE_CHAR, _separator, _separator>>)
    /\ outText = Str(<<ESCAPE_CHAR, ESCAPE_CHAR, _separator, ESCAPE_CHAR, _separator>>)
    /\ decoded = input

(***************************************************************************)
(* One instance used for any sequence of calls.                            *)
(***************************************************************************)
SequenceRegistries == {<<>>, <<durationSerializer, infinitySerializer>>}

SequenceValues ==
    Entries \cup {Infinity}
    \cup {Arr(<<x>>) : x \in Entries}
    \cup {Obj(<<<<key, x>>>>) : key \in ShortStrings, x \in Entries}

\* texts and trees from elsewhere: the empty text, the text of a number,
\* maps with a key that carries a type no serializer has, arrays of a string
SequenceInputs ==
    {Str(<<>>), Str(<<Digits[2]>>)}
    \cup {Obj(<<<<<<"S", separator, "S">>, Num(n)>>>>) :
             separator \in Separators, n \in 0..MaxNumber}
    \cup {Arr(<<Str(str)>>) : str \in ShortStrings}

\* serialize(v) or serialize(v, {toObject: true}), after any other call
SerializeCall(v, toObject) ==
    /\ pc = "ready"
    /\ value' = v
    /\ IF toObject
       THEN /\ outObject' = serialize(This, v, TRUE)
            /\ outText' = None
       ELSE /\ outText' = serialize(This, v, FALSE)
            /\ outObject' = None
    /\ backText' = None
    /\ backObject' = None
    /\ UNCHANGED <<pc, args, _serializers, _separator, input, decoded>>

\* a deserialize that drops the registry when it throws
DeserializeCallClearing(x) ==
    /\ pc = "ready"
    /\ input' = x
    /\ decoded' = deserialize(This, x)
    /\ _serializers' = IF IsError(decoded') THEN <<>> ELSE _serializers
    /\ value' = None
    /\ outText' = None
    /\ outObject' = None
    /\ backText' = None
    /\ backObject' = None
    /\ UNCHANGED <<pc, args, _separator>>

\* deserialize(x) on a tree or text from elsewhere, after any other call
DeserializeCall(x) ==
    /\ pc = "ready"
    /\ input' = x
    /\ decoded' = deserialize(This, x)
    /\ value' = None
    /\ outText' = None
    /\ outObject' = None
    /\ backText' = None
    /\ backObject' = None
    /\ UNCHANGED <<pc, args, _serializers, _separator>>

NextSequence ==
    \/ \E serializers \in SequenceRegistries, separator \in Separators :
          Construct(serializers, separator)
    \/ \E v \in SequenceValues, toObject \in BOOLEAN : SerializeCall(v, toObject)
    \/ DeserializeText
    \/ DeserializeObject
    \/ \E x \in SequenceInputs : DeserializeCall(x)

SpecSequence == Init /\ [][NextSequence]_vars

\* C15: use never changes the instance.  After any sequence of serialize and
\* deserialize calls, failed ones included, the registry and the separator
\* are those the constructor set, and the result of the latest call of each
\* kind is the result a fresh instance of the same arguments gives.
C15_InstanceUnchanged ==
    pc = "ready" =>
        LET Fresh == [_serializers |-> indexByType(args[1]),
                      _separator |-> separatorOrDefault(args[2])]
        IN  /\ _serializers = Fresh._serializers
            /\ _separator = Fresh._separator
            /\ outText # None => outText = serialize(Fresh, value, FALSE)
            /\ outObject # None => outObject = serialize(Fresh, value, TRUE)
            /\ backText # None =>
                   backText = deserialize(Fresh, serialize(Fresh, value, FALSE))
            /\ backObject # None =>
                   backObject = deserialize(Fresh, serialize(Fresh, value, TRUE))
            /\ decoded # None => decoded = deserialize(Fresh, input)

\* a deserialize call failed; later on the same instance a Duration inside a
\* map was serialized and read back
C15_Witness ==
    /\ pc = "ready"
    /\ IsError(decoded)
    /\ value.k = "map"
    /\ HasSpecial(value)
    /\ backText # None
    /\ DeepEqual(backText, value)

====
